---- MODULE Spec2Model ----
(***************************************************************************)
(* Model of the Todo PWA storage layer (class TodoStorage) and of the      *)
(* import handler of TodoApp.                                              *)
(*                                                                         *)
(* Every handler is synchronous JavaScript, so each action below is one    *)
(* whole handler run.  The environment (the wall clock, the outcome of     *)
(* each localStorage.setItem call, where a call-stack overflow is caught)  *)
(* is an input of the action.                                              *)
(*                                                                         *)
(* Time is counted in units of thirty days.  A string is the sequence of   *)
(* its characters.                                                         *)
(***************************************************************************)
EXTENDS Integers, Sequences, FiniteSets, TLC

(***************************************************************************)
(* Bounds of the model.                                                    *)
(***************************************************************************)
\* the longest todo list an add or an import may produce
MaxTodos == 2
\* the last instant of the wall clock
MaxTime == 1
\* how many ids generateId hands out
MaxIds == 2
\* nested handleQuotaExceeded frames the call stack holds before RangeError
MaxRecoveryDepth == 2

\* 30 * 24 * 60 * 60 * 1000 ms, in units of thirty days
ThirtyDays == 1

(***************************************************************************)
(* JavaScript values.  One record shape for all of them: k is the kind,    *)
(* b the boolean, n the number or the instant, s the characters of a       *)
(* string or the elements of an array.  Kind "iso" is the ISO-8601 string  *)
(* of instant n (Date.prototype.toISOString), kind "date" a Date object,   *)
(* kind "absent" a key that an object literal does not hold.               *)
(***************************************************************************)
Val(k, b, n, s) == [k |-> k, b |-> b, n |-> n, s |-> s]
Undef == Val("undefined", FALSE, 0, <<>>)
Absent == Val("absent", FALSE, 0, <<>>)
Null == Val("null", FALSE, 0, <<>>)
Bool(b) == Val("boolean", b, 0, <<>>)
Num(n) == Val("number", FALSE, n, <<>>)
Str(s) == Val("string", FALSE, 0, s)
Iso(t) == Val("iso", FALSE, t, <<>>)
DateObj(t) == Val("date", FALSE, t, <<>>)
Arr(s) == Val("array", FALSE, 0, s)

\* typeof v
TypeOf(v) ==
    CASE v.k \in {"undefined", "absent"} -> "undefined"
      [] v.k = "boolean" -> "boolean"
      [] v.k = "number" -> "number"
      [] v.k \in {"string", "iso"} -> "string"
      [] OTHER -> "object"

\* ToBoolean(v): what if (v), !v and v || d test
Truthy(v) ==
    CASE v.k \in {"undefined", "absent", "null"} -> FALSE
      [] v.k = "boolean" -> v.b
      [] v.k = "number" -> v.n # 0
      [] v.k = "string" -> v.s # <<>>
      [] OTHER -> TRUE

\* v || d
Or(v, d) == IF Truthy(v) THEN v ELSE d

\* reading a property: a key the object does not hold reads as undefined
Read(v) == IF v.k = "absent" THEN Undef ELSE v

\* String.prototype.trim on the characters of a string
RECURSIVE TrimLeft(_)
TrimLeft(s) == IF s # <<>> /\ Head(s) = " " THEN TrimLeft(Tail(s)) ELSE s

RECURSIVE TrimRight(_)
TrimRight(s) ==
    IF s # <<>> /\ s[Len(s)] = " " THEN TrimRight(SubSeq(s, 1, Len(s) - 1)) ELSE s

Trim(s) == TrimRight(TrimLeft(s))

\* v.trim() for a value with typeof v = "string"; an ISO string has no blanks
TrimVal(v) == IF v.k = "string" THEN Str(Trim(v.s)) ELSE v

\* UTF-16 code of the characters that version strings are made of
CharCode(c) ==
    CASE c = "." -> 46
      [] c = "0" -> 48
      [] c = "1" -> 49
      [] c = "2" -> 50
      [] c = "9" -> 57
      [] OTHER -> 97

\* s < t on strings: lexicographic on the character codes
RECURSIVE StrLess(_, _)
StrLess(s, t) ==
    IF t = <<>> THEN FALSE
    ELSE IF s = <<>> THEN TRUE
    ELSE IF CharCode(Head(s)) # CharCode(Head(t))
         THEN CharCode(Head(s)) < CharCode(Head(t))
         ELSE StrLess(Tail(s), Tail(t))

\* Number.prototype.toString of an instant
Digits == <<"0", "1", "2", "3", "4", "5", "6", "7", "8", "9">>

RECURSIVE ToStr(_)
ToStr(n) == IF n < 10 THEN <<Digits[n + 1]>> ELSE ToStr(n \div 10) \o <<Digits[(n % 10) + 1]>>

\* JSON.parse(JSON.stringify(v)) of a property value: a Date is written as
\* its ISO string, an undefined property is not written at all
JsonVal(v) ==
    CASE v.k = "date" -> Iso(v.n)
      [] v.k \in {"undefined", "absent"} -> Undef
      [] OTHER -> v

(***************************************************************************)
(* Members of a todo list.  o is "object" for an object, "null" for null   *)
(* and "primitive" for a number or a string in the list; a property the    *)
(* object does not hold is Undef.                                          *)
(***************************************************************************)
Entry(o, id, title, completed, dueDate, createdAt, completedAt, priority, tags, description, updatedAt) ==
    [o |-> o, id |-> id, title |-> title, completed |-> completed, dueDate |-> dueDate,
     createdAt |-> createdAt, completedAt |-> completedAt, priority |-> priority,
     tags |-> tags, description |-> description, updatedAt |-> updatedAt]

NullEntry == Entry("null", Undef, Undef, Undef, Undef, Undef, Undef, Undef, Undef, Undef, Undef)
PrimEntry == Entry("primitive", Undef, Undef, Undef, Undef, Undef, Undef, Undef, Undef, Undef, Undef)

JsonEntry(e) ==
    Entry(e.o, JsonVal(e.id), JsonVal(e.title), JsonVal(e.completed), JsonVal(e.dueDate),
          JsonVal(e.createdAt), JsonVal(e.completedAt), JsonVal(e.priority),
          JsonVal(e.tags), JsonVal(e.description), JsonVal(e.updatedAt))

JsonList(l) == [i \in 1..Len(l) |-> JsonEntry(l[i])]

\* a parsed value that is a list, and one that is not (an object, a number)
ListOf(l) == [k |-> "list", v |-> l]
NonList == [k |-> "nonlist", v |-> <<>>]
\* a localStorage item that is not there, and one that JSON.parse rejects
NoItem == [k |-> "absent", v |-> <<>>]
BadItem == [k |-> "unparsable", v |-> <<>>]

NormalPriority == Str(<<"n", "o", "r", "m", "a", "l">>)

(***************************************************************************)
(* validateTodos                                                           *)
(***************************************************************************)
\* the filter callback of validateTodos
ValidTodo(todo) ==
    /\ todo.o = "object"
    /\ Truthy(todo.id) /\ TypeOf(todo.id) = "string"
    /\ Truthy(todo.title) /\ TypeOf(todo.title) = "string"
    /\ TypeOf(todo.completed) = "boolean"

\* the map callback of validateTodos, at instant now
NormalizeTodo(todo, now) ==
    Entry("object",
          todo.id,
          TrimVal(todo.title),
          Bool(Truthy(todo.completed)),
          Or(todo.dueDate, Null),
          Or(todo.createdAt, Iso(now)),
          Or(todo.completedAt, Null),
          Or(todo.priority, NormalPriority),
          IF todo.tags.k = "array" THEN todo.tags ELSE Arr(<<>>),
          Or(todo.description, Str(<<>>)),
          Undef)

validateTodos(todos, now) ==
    IF todos.k # "list" THEN <<>>
    ELSE LET kept == SelectSeq(todos.v, ValidTodo)
         IN [i \in 1..Len(kept) |-> NormalizeTodo(kept[i], now)]

(***************************************************************************)
(* Settings: one value per default key; Absent for a key the stored        *)
(* object does not hold.                                                   *)
(***************************************************************************)
Settings(version, theme, notifications, autoCleanup, sortBy, sortOrder, showCompleted, compactMode) ==
    [version |-> version, theme |-> theme, notifications |-> notifications,
     autoCleanup |-> autoCleanup, sortBy |-> sortBy, sortOrder |-> sortOrder,
     showCompleted |-> showCompleted, compactMode |-> compactMode]

\* this.version = '1.0.0'
version == Str(<<"1", ".", "0", ".", "0">>)

getDefaultSettings ==
    Settings(version, Str(<<"a", "u", "t", "o">>), Bool(FALSE), Bool(TRUE),
             Str(<<"c", "r", "e", "a", "t", "e", "d", "A", "t">>), Str(<<"d", "e", "s", "c">>),
             Bool(TRUE), Bool(FALSE))

\* one key of { ...under, ...over }
Spread(under, over) == IF over.k = "absent" THEN under ELSE over

\* { ...this.getDefaultSettings(), ...settings }
MergeDefaults(settings) ==
    LET d == getDefaultSettings
    IN Settings(Spread(d.version, settings.version), Spread(d.theme, settings.theme),
                Spread(d.notifications, settings.notifications),
                Spread(d.autoCleanup, settings.autoCleanup),
                Spread(d.sortBy, settings.sortBy), Spread(d.sortOrder, settings.sortOrder),
                Spread(d.showCompleted, settings.showCompleted),
                Spread(d.compactMode, settings.compactMode))

NoSettings == Settings(Absent, Absent, Absent, Absent, Absent, Absent, Absent, Absent)

\* JSON.stringify drops a key whose value is undefined
JsonKey(v) == IF v.k \in {"undefined", "absent"} THEN Absent ELSE JsonVal(v)

JsonSettings(s) ==
    Settings(JsonKey(s.version), JsonKey(s.theme), JsonKey(s.notifications),
             JsonKey(s.autoCleanup), JsonKey(s.sortBy), JsonKey(s.sortOrder),
             JsonKey(s.showCompleted), JsonKey(s.compactMode))

\* the settings item of localStorage: k is "absent", "unparsable" or "object"
SettingsItem(s) == [k |-> "object", v |-> s]
NoSettingsItem == [k |-> "absent", v |-> NoSettings]
BadSettingsItem == [k |-> "unparsable", v |-> NoSettings]

(***************************************************************************)
(* The store while a handler runs.                                         *)
(*   ls    the two localStorage items                                      *)
(*   mem   this.memoryStorage, set: whether it has been assigned           *)
(*   fb    this.usingMemoryFallback                                        *)
(*   ev    the events dispatched by the handler so far                     *)
(*   wr    the outcome of each localStorage.setItem(storageKey, ..) so     *)
(*         far, then "overflow" when the calls between saveTodos and       *)
(*         handleQuotaExceeded went on until the call stack ran out        *)
(*   sw    the outcome of each localStorage.setItem(settingsKey, ..)       *)
(*   now   Date.now()                                                      *)
(*   tq    outcome of the i-th setItem on the todos key in this handler    *)
(*   sq    outcome of a setItem on the settings key in this handler        *)
(*   ovf   whether a RangeError of the exhausted call stack surfaces in    *)
(*         the try block of handleQuotaExceeded (TRUE) or is swallowed by  *)
(*         the catch of saveTodos or getTodos (FALSE)                      *)
(***************************************************************************)
Outcomes == {"ok", "quota", "error"}

Event(type, data) == [type |-> type, data |-> data]

OutcomeAt(tq, i) == IF i \in DOMAIN tq THEN tq[i] ELSE "ok"

\* triggerStorageEvent
triggerStorageEvent(S, type, data) == [S EXCEPT !.ev = Append(@, Event(type, data))]

\* useMemoryFallback
useMemoryFallback(S) ==
    [S EXCEPT !.mem = [set |-> TRUE, todos |-> <<>>, settings |-> getDefaultSettings],
              !.fb = TRUE]

\* getTodos(), were the instance to answer from a copy of its own instead of
\* reading localStorage on every call
getTodosCached(S) == validateTodos(ListOf(S.mem.todos), S.now)

\* getTodos() without options
getTodos(S) ==
    IF S.fb THEN validateTodos(ListOf(S.mem.todos), S.now)
    ELSE CASE S.ls.todos.k = "absent" -> validateTodos(ListOf(<<>>), S.now)
           [] S.ls.todos.k = "unparsable" -> <<>>
           [] OTHER -> validateTodos(S.ls.todos, S.now)

\* the instant of new Date(v).getTime(); ok is FALSE for NaN
TimeOf(v) ==
    CASE v.k \in {"iso", "date", "number"} -> [ok |-> TRUE, t |-> v.n]
      [] v.k = "null" -> [ok |-> TRUE, t |-> 0]
      [] v.k = "boolean" -> [ok |-> TRUE, t |-> 0]
      [] OTHER -> [ok |-> FALSE, t |-> 0]

\* the filter callback of handleQuotaExceeded
KeepOnCleanup(todo, now) ==
    IF ~Truthy(todo.completed) THEN TRUE
    ELSE LET completedDate == TimeOf(Or(todo.completedAt, todo.createdAt))
         IN completedDate.ok /\ completedDate.t > now - ThirtyDays

RECURSIVE saveTodos(_, _, _)
RECURSIVE handleQuotaExceeded(_, _)

\* handleQuotaExceeded, entered as the depth-th nested recovery.  A recovery
\* whose write fails with quota-exceeded finds the store as the one before
\* found it and does the same again: past MaxRecoveryDepth the chain is the
\* one that ends with the RangeError of the exhausted call stack.
handleQuotaExceeded(S, depth) ==
    IF depth > MaxRecoveryDepth
    THEN LET S1 == [S EXCEPT !.wr = Append(@, "overflow")]
         IN IF S.ovf THEN useMemoryFallback(S1) ELSE S1
    ELSE LET todos == getTodos(S)
             filteredTodos == SelectSeq(todos, LAMBDA todo : KeepOnCleanup(todo, S.now))
         IN IF Len(filteredTodos) < Len(todos)
            THEN saveTodos(S, filteredTodos, depth).s
            ELSE S

\* saveTodos(todos), called inside depth nested recoveries; s is the store
\* afterwards and ret the value returned
saveTodos(S, todos, depth) ==
    LET validatedTodos == validateTodos(ListOf(todos), S.now)
    IN IF S.fb
       THEN [s |-> triggerStorageEvent([S EXCEPT !.mem.todos = validatedTodos],
                                       "todos_updated", validatedTodos),
             ret |-> TRUE]
       ELSE LET o == OutcomeAt(S.tq, Len(S.wr) + 1)
                S1 == [S EXCEPT !.wr = Append(@, o)]
            IN CASE o = "ok" ->
                      [s |-> triggerStorageEvent(
                                 [S1 EXCEPT !.ls.todos = ListOf(JsonList(validatedTodos))],
                                 "todos_updated", validatedTodos),
                       ret |-> TRUE]
                 [] o = "quota" -> [s |-> handleQuotaExceeded(S1, depth + 1), ret |-> FALSE]
                 [] OTHER -> [s |-> S1, ret |-> FALSE]

\* getSettings, were it to return the stored object as it is
getSettingsUnmerged(S) ==
    IF S.fb THEN S.mem.settings
    ELSE CASE S.ls.settings.k = "absent" -> getDefaultSettings
           [] S.ls.settings.k = "unparsable" -> getDefaultSettings
           [] OTHER -> S.ls.settings.v

\* getSettings
getSettings(S) ==
    IF S.fb THEN S.mem.settings
    ELSE CASE S.ls.settings.k = "absent" -> MergeDefaults(getDefaultSettings)
           [] S.ls.settings.k = "unparsable" -> getDefaultSettings
           [] OTHER -> MergeDefaults(S.ls.settings.v)

\* saveSettings
saveSettings(S, settings) ==
    LET validatedSettings == MergeDefaults(settings)
    IN IF S.fb
       THEN [s |-> triggerStorageEvent([S EXCEPT !.mem.settings = validatedSettings],
                                       "settings_updated", <<>>),
             ret |-> TRUE]
       ELSE LET S1 == [S EXCEPT !.sw = Append(@, S.sq)]
            IN IF S.sq = "ok"
               THEN [s |-> triggerStorageEvent(
                               [S1 EXCEPT !.ls.settings = SettingsItem(JsonSettings(validatedSettings))],
                               "settings_updated", <<>>),
                     ret |-> TRUE]
               ELSE [s |-> S1, ret |-> FALSE]

(***************************************************************************)
(* Todo operations.  Each returns the store afterwards (s) and the value   *)
(* returned: ret is "todo" (with the todo), "null", "true" or "false".     *)
(***************************************************************************)
NoTodo == Entry("none", Undef, Undef, Undef, Undef, Undef, Undef, Undef, Undef, Undef, Undef)

\* the random suffix of the idn-th generated id; the source of randomness is
\* taken not to repeat
RandomSuffix(idn) == <<"r">> \o ToStr(idn)

\* generateId: Date.now().toString() + Math.random().toString(36).substr(2, 9)
generateId(now, idn) == Str(ToStr(now) \o RandomSuffix(idn))

\* what addTodo reads of its argument
TodoData(title, dueDate, priority, tags, description) ==
    [title |-> title, dueDate |-> dueDate, priority |-> priority, tags |-> tags,
     description |-> description]

\* the object literal newTodo of addTodo
NewTodo(todoData, now, idn) ==
    Entry("object",
          generateId(now, idn),
          TrimVal(Read(todoData.title)),
          Bool(FALSE),
          Or(Read(todoData.dueDate), Null),
          Iso(now),
          Null,
          Or(Read(todoData.priority), NormalPriority),
          Or(Read(todoData.tags), Arr(<<>>)),
          Or(Read(todoData.description), Str(<<>>)),
          Undef)

\* addTodo(todoData), were it to return the record whatever saveTodos returned
addTodoIgnoringSave(S, todoData, idn) ==
    LET todos == getTodos(S)
    IN IF TypeOf(todoData.title) # "string"
       THEN [s |-> S, ret |-> "null", todo |-> NoTodo]
       ELSE LET newTodo == NewTodo(todoData, S.now, idn)
                saved == saveTodos(S, <<newTodo>> \o todos, 0)
            IN [s |-> triggerStorageEvent(saved.s, "todo_added", <<newTodo>>),
                ret |-> "todo", todo |-> newTodo]

\* addTodo(todoData), the idn-th call of generateId
addTodo(S, todoData, idn) ==
    LET todos == getTodos(S)
    IN IF TypeOf(todoData.title) # "string"
       THEN \* todoData.title.trim() throws a TypeError, caught
            [s |-> S, ret |-> "null", todo |-> NoTodo]
       ELSE LET newTodo == NewTodo(todoData, S.now, idn)
                saved == saveTodos(S, <<newTodo>> \o todos, 0)
            IN IF saved.ret
               THEN [s |-> triggerStorageEvent(saved.s, "todo_added", <<newTodo>>),
                     ret |-> "todo", todo |-> newTodo]
               ELSE [s |-> saved.s, ret |-> "null", todo |-> NoTodo]

\* the index of the first todo with todo.id === id, 0 for -1
FindIndex(todos, id) ==
    IF \E i \in 1..Len(todos) : todos[i].id = id
    THEN CHOOSE i \in 1..Len(todos) :
             todos[i].id = id /\ \A j \in 1..(i - 1) : todos[j].id # id
    ELSE 0

\* an update payload: Absent for every key it does not hold
Updates(id, title, completed, createdAt, completedAt) ==
    [id |-> id, title |-> title, completed |-> completed, dueDate |-> Absent,
     createdAt |-> createdAt, completedAt |-> completedAt, priority |-> Absent,
     tags |-> Absent, description |-> Absent, updatedAt |-> Absent]

\* { ...todo, ...updates, id, updatedAt: new Date().toISOString() }
MergeTodo(todo, updates, id, now) ==
    Entry(todo.o,
          id,
          Spread(todo.title, updates.title),
          Spread(todo.completed, updates.completed),
          Spread(todo.dueDate, updates.dueDate),
          Spread(todo.createdAt, updates.createdAt),
          Spread(todo.completedAt, updates.completedAt),
          Spread(todo.priority, updates.priority),
          Spread(todo.tags, updates.tags),
          Spread(todo.description, updates.description),
          Iso(now))

\* the completion status change, were a completedAt of the payload to win
SetCompletedAtUnlessGiven(todo, updates, now) ==
    IF Read(updates.completed) # Undef /\ Read(updates.completedAt) = Undef
    THEN [todo EXCEPT !.completedAt = IF Truthy(updates.completed) THEN Iso(now) ELSE Null]
    ELSE todo

\* the completion status change of updateTodo
SetCompletedAt(todo, updates, now) ==
    IF Read(updates.completed) # Undef
    THEN [todo EXCEPT !.completedAt = IF Truthy(updates.completed) THEN Iso(now) ELSE Null]
    ELSE todo

\* updateTodo(id, updates); old is the record before, todo the one returned
updateTodo(S, id, updates) ==
    LET todos == getTodos(S)
        index == FindIndex(todos, id)
    IN IF index = 0
       THEN [s |-> S, ret |-> "null", todo |-> NoTodo, old |-> NoTodo]
       ELSE LET oldTodo == todos[index]
                newTodo == SetCompletedAt(MergeTodo(oldTodo, updates, id, S.now), updates, S.now)
                saved == saveTodos(S, [todos EXCEPT ![index] = newTodo], 0)
            IN IF saved.ret
               THEN [s |-> triggerStorageEvent(saved.s, "todo_updated", <<oldTodo, newTodo>>),
                     ret |-> "todo", todo |-> newTodo, old |-> oldTodo]
               ELSE [s |-> saved.s, ret |-> "null", todo |-> NoTodo, old |-> oldTodo]

\* todos.splice(index, 1)
Splice(todos, index) == SubSeq(todos, 1, index - 1) \o SubSeq(todos, index + 1, Len(todos))

\* deleteTodo(id), were it to go on when findIndex returns -1: splice(-1, 1)
\* removes the last todo
deleteTodoUnguarded(S, id) ==
    LET todos == getTodos(S)
        index == IF FindIndex(todos, id) = 0 THEN Len(todos) ELSE FindIndex(todos, id)
        deletedTodo == IF index = 0 THEN NoTodo ELSE todos[index]
        saved == saveTodos(S, Splice(todos, index), 0)
    IN IF saved.ret
       THEN [s |-> triggerStorageEvent(saved.s, "todo_deleted", <<deletedTodo>>),
             ret |-> "true", todo |-> deletedTodo]
       ELSE [s |-> saved.s, ret |-> "false", todo |-> deletedTodo]

\* deleteTodo(id)
deleteTodo(S, id) ==
    LET todos == getTodos(S)
        index == FindIndex(todos, id)
    IN IF index = 0
       THEN [s |-> S, ret |-> "false", todo |-> NoTodo]
       ELSE LET deletedTodo == todos[index]
                saved == saveTodos(S, Splice(todos, index), 0)
            IN IF saved.ret
               THEN [s |-> triggerStorageEvent(saved.s, "todo_deleted", <<deletedTodo>>),
                     ret |-> "true", todo |-> deletedTodo]
               ELSE [s |-> saved.s, ret |-> "false", todo |-> deletedTodo]

\* getTodo(id): the todo, or NoTodo for null
getTodo(S, id) ==
    LET todos == getTodos(S)
        index == FindIndex(todos, id)
    IN IF index = 0 THEN NoTodo ELSE todos[index]

\* getTodos() as its caller sees it, were it to hand on what JSON.parse
\* gives or throws
getAllUnguarded(S) ==
    IF S.fb THEN [ret |-> "list", list |-> S.mem.todos]
    ELSE CASE S.ls.todos.k = "absent" -> [ret |-> "list", list |-> <<>>]
           [] S.ls.todos.k = "unparsable" -> [ret |-> "threw", list |-> <<>>]
           [] S.ls.todos.k = "nonlist" -> [ret |-> "nonlist", list |-> <<>>]
           [] OTHER -> [ret |-> "list", list |-> S.ls.todos.v]

\* getTodos() as its caller sees it: ret is "list", with the list
getAll(S) == [ret |-> "list", list |-> getTodos(S)]

\* c.toLowerCase() for one character
LowerChar(c) ==
    CASE c = "A" -> "a"
      [] c = "B" -> "b"
      [] c = "X" -> "x"
      [] OTHER -> c

\* s.toLowerCase()
Lower(s) == [i \in 1..Len(s) |-> LowerChar(s[i])]

\* s.includes(t)
Includes(s, t) == \E i \in 1..(Len(s) - Len(t) + 1) : SubSeq(s, i, i + Len(t) - 1) = t

\* the filter callback of searchTodos: "match", "no", or "throw" when
\* toLowerCase is called on a description that is not a string
MatchTodo(todo, searchTerm) ==
    IF Includes(Lower(todo.title.s), searchTerm) THEN "match"
    ELSE IF TypeOf(todo.description) # "string" THEN "throw"
    ELSE IF Includes(Lower(todo.description.s), searchTerm) THEN "match"
    ELSE IF \E i \in 1..Len(todo.tags.s) : Includes(Lower(<<todo.tags.s[i]>>), searchTerm)
    THEN "match"
    ELSE "no"

\* searchTodos(query): ret is "list", with the list, or "threw" when an
\* exception leaves the method
searchTodos(S, query) ==
    LET todos == getTodos(S)
    IN IF TypeOf(query) # "string"
       THEN [ret |-> "threw", list |-> <<>>]
       ELSE LET searchTerm == Trim(Lower(query.s))
            IN IF searchTerm = <<>>
               THEN [ret |-> "list", list |-> todos]
               ELSE IF \E i \in 1..Len(todos) : MatchTodo(todos[i], searchTerm) = "throw"
               THEN [ret |-> "threw", list |-> <<>>]
               ELSE [ret |-> "list",
                     list |-> SelectSeq(todos, LAMBDA todo : MatchTodo(todo, searchTerm) = "match")]

\* the filter callback of importTodos
ImportValid(todo) ==
    todo.o = "object" /\ TypeOf(todo.title) = "string" /\ TypeOf(todo.completed) = "boolean"

\* the onload handler of importTodos for a file that parses to imported;
\* ret is "resolved" or "rejected"
importTodos(S, imported) ==
    IF imported.k # "list"
    THEN [s |-> S, ret |-> "rejected"]
    ELSE LET validTodos == SelectSeq(imported.v, ImportValid)
         IN IF Len(validTodos) = 0
            THEN [s |-> S, ret |-> "rejected"]
            ELSE [s |-> saveTodos(S, validTodos \o getTodos(S), 0).s, ret |-> "resolved"]

(***************************************************************************)
(* Initialization and migration                                            *)
(***************************************************************************)
\* performMigrations(fromVersion, toVersion)
performMigrations(S, fromVersion, idn) ==
    LET todos == getTodos(S)
        pre == fromVersion.k = "string" /\ StrLess(fromVersion.s, version.s)
        Fix(todo, i) ==
            [todo EXCEPT !.id = IF ~Truthy(todo.id) THEN generateId(S.now, idn + i) ELSE @,
                         !.createdAt = IF ~Truthy(todo.createdAt) THEN Iso(S.now) ELSE @,
                         !.completed = IF TypeOf(todo.completed) # "boolean" THEN Bool(FALSE) ELSE @]
        fixed == [i \in 1..Len(todos) |-> IF pre THEN Fix(todos[i], i) ELSE todos[i]]
        migrated == fixed # todos
    IN IF migrated THEN saveTodos(S, fixed, 0).s ELSE S

\* handleVersionMigration, were it to save the settings as it read them
handleVersionMigrationUnversioned(S, idn) ==
    LET settings == getSettings(S)
        currentVersion == Or(settings.version, Str(<<"0", ".", "0", ".", "0">>))
    IN IF currentVersion # version
       THEN saveSettings(performMigrations(S, currentVersion, idn), settings).s
       ELSE S

\* handleVersionMigration
handleVersionMigration(S, idn) ==
    LET settings == getSettings(S)
        currentVersion == Or(settings.version, Str(<<"0", ".", "0", ".", "0">>))
    IN IF currentVersion # version
       THEN saveSettings(performMigrations(S, currentVersion, idn),
                         [settings EXCEPT !.version = version]).s
       ELSE S

\* initializeStorage; available is what isStorageAvailable returns
initializeStorage(S, available, idn) ==
    IF ~available
    THEN useMemoryFallback(S)
    ELSE LET S1 == IF S.ls.todos.k = "absent" THEN saveTodos(S, <<>>, 0).s ELSE S
             S2 == IF S1.ls.settings.k = "absent"
                   THEN saveSettings(S1, getDefaultSettings).s
                   ELSE S1
         IN handleVersionMigration(S2, idn)

\* clearAll, were it to probe localStorage again while on the fallback and
\* go back to it when the probe succeeds
clearAllReprobing(S, available, idn) ==
    LET cleared == IF S.fb /\ ~available
                   THEN [S EXCEPT !.mem.todos = <<>>, !.mem.settings = getDefaultSettings]
                   ELSE initializeStorage(
                            [S EXCEPT !.ls.todos = NoItem, !.ls.settings = NoSettingsItem,
                                      !.fb = FALSE],
                            available, idn)
    IN [s |-> triggerStorageEvent(cleared, "storage_cleared", <<>>), ret |-> "true"]

\* clearAll, were it to leave the settings alone
clearAllTodosOnly(S, available, idn) ==
    LET cleared == IF S.fb
                   THEN [S EXCEPT !.mem.todos = <<>>]
                   ELSE initializeStorage([S EXCEPT !.ls.todos = NoItem], available, idn)
    IN [s |-> triggerStorageEvent(cleared, "storage_cleared", <<>>), ret |-> "true"]

\* clearAll; available is what isStorageAvailable returns to the
\* initializeStorage it calls.  localStorage.removeItem does not fail.
clearAll(S, available, idn) ==
    LET cleared == IF S.fb
                   THEN [S EXCEPT !.mem.todos = <<>>, !.mem.settings = getDefaultSettings]
                   ELSE initializeStorage(
                            [S EXCEPT !.ls.todos = NoItem, !.ls.settings = NoSettingsItem],
                            available, idn)
    IN [s |-> triggerStorageEvent(cleared, "storage_cleared", <<>>), ret |-> "true"]

(***************************************************************************)
(* State                                                                   *)
(*   phase    "boot" before the constructor has run, "ready" after         *)
(*   now      the wall clock                                               *)
(*   ls       localStorage: the todos item and the settings item           *)
(*   mem      this.memoryStorage                                           *)
(*   fb       this.usingMemoryFallback                                     *)
(*   idCount  how many ids generateId has handed out                       *)
(*   last     the handler that has just run, as its caller sees it: its    *)
(*            arguments, what it returned, the events it dispatched and    *)
(*            the outcome of its writes; op is "none" once the caller has  *)
(*            taken the result and the event loop is idle again; list and  *)
(*            settings hold what a read returned, the argument of          *)
(*            saveSettings or what clearAll found, file what the file of   *)
(*            importTodos parsed to, probe what the probe of               *)
(*            isStorageAvailable found ("none" when it did not run)        *)
(*   raw      the argument of a validateTodos call made on its own         *)
(*   checked  what that call returned                                      *)
(*   peer     the TodoStorage instance of the other tab of the same        *)
(*            origin: its number, whether its constructor has run, its     *)
(*            memoryStorage and its usingMemoryFallback; phase, mem and    *)
(*            fb are those of the tab whose handlers run, and both tabs    *)
(*            share ls                                                     *)
(***************************************************************************)
VARIABLES phase, now, ls, mem, fb, idCount, last, raw, checked, peer

vars == <<phase, now, ls, mem, fb, idCount, last, raw, checked, peer>>

NoData == TodoData(Absent, Absent, Absent, Absent, Absent)
NoUpdates == Updates(Absent, Absent, Absent, Absent, Absent)

Last(op, id, data, upd, ret, todo, old, S) ==
    [op |-> op, id |-> id, data |-> data, upd |-> upd, ret |-> ret, todo |-> todo,
     old |-> old, ev |-> S.ev, wr |-> S.wr, sw |-> S.sw, list |-> <<>>,
     settings |-> NoSettings, probe |-> "none", file |-> NoItem]

\* the store as a handler finds it, with the environment's answers
Store(env) ==
    [ls |-> ls, mem |-> mem, fb |-> fb, ev |-> <<>>, wr |-> <<>>, sw |-> <<>>,
     now |-> now, tq |-> env.tq, sq |-> env.sq, ovf |-> env.ovf]

\* the store as the next handler will find it
Current == Store([tq |-> <<>>, sq |-> "ok", ovf |-> FALSE])

Commit(S) == ls' = S.ls /\ mem' = S.mem /\ fb' = S.fb

(***************************************************************************)
(* The environment's answers to one handler run.  Answers that the handler *)
(* never reads are fixed, so that no run is listed twice: a chain of       *)
(* recovery writes goes on only while the writes fail with quota-exceeded  *)
(* and the stored list holds something to clean up, the call stack runs    *)
(* out only when every write of the chain fails, and the in-memory         *)
(* fallback writes nothing to localStorage.                                *)
(***************************************************************************)
OkEnv == [tq |-> [i \in 1..(MaxRecoveryDepth + 1) |-> "ok"], sq |-> "ok", ovf |-> FALSE]

AllQuota(tq) == \A i \in DOMAIN tq : tq[i] = "quota"

TodoOracles ==
    {tq \in [1..(MaxRecoveryDepth + 1) -> Outcomes] :
        \A i \in DOMAIN tq : tq[i] # "quota" => \A j \in DOMAIN tq : j > i => tq[j] = "ok"}

\* whether handleQuotaExceeded finds a todo to drop in the stored list
CleanupPending(S) ==
    \E i \in 1..Len(getTodos(S)) : ~KeepOnCleanup(getTodos(S)[i], S.now)

\* the answers to a handler that writes todos only
TodoEnvs(S) ==
    IF S.fb THEN {OkEnv}
    ELSE IF ~CleanupPending(S)
    THEN {[OkEnv EXCEPT !.tq[1] = o] : o \in Outcomes}
    ELSE {[OkEnv EXCEPT !.tq = tq] : tq \in TodoOracles}
             \cup {[OkEnv EXCEPT !.tq = tq, !.ovf = TRUE] : tq \in {q \in TodoOracles : AllQuota(q)}}

\* the answers to a handler that writes settings too
AllEnvs(S) == IF S.fb THEN {OkEnv} ELSE {[e EXCEPT !.sq = sq] : e \in TodoEnvs(S), sq \in Outcomes}

\* the answers to a handler that writes settings only
SettingsEnvs(S) == IF S.fb THEN {OkEnv} ELSE {[OkEnv EXCEPT !.sq = sq] : sq \in Outcomes}

(***************************************************************************)
(* Inputs                                                                  *)
(***************************************************************************)
TitleA == Str(<<"a">>)
TitleB == Str(<<" ", "b", " ">>)
Blank == Str(<<" ">>)
Empty == Str(<<>>)

\* a well-formed argument of addTodo, as the form passes it
PlainData == TodoData(TitleA, Null, Absent, Absent, Absent)

\* what callers pass to addTodo
AddInputs ==
    {PlainData,
     TodoData(TitleB, DateObj(0), Absent, Str(<<"x">>), Absent),
     TodoData(Blank, Absent, Absent, Absent, Absent),
     TodoData(Empty, Absent, Absent, Absent, Absent),
     TodoData(Absent, Absent, Absent, Absent, Absent)}

\* the payloads of toggleTodo
ToggleInputs ==
    {Updates(Absent, Absent, Bool(TRUE), Absent, Absent),
     Updates(Absent, Absent, Bool(FALSE), Absent, Absent)}

\* payloads that set completed, two of them with a completedAt of their own
CompletionInputs ==
    ToggleInputs \cup
    {Updates(Absent, Absent, Bool(TRUE), Absent, Null),
     Updates(Absent, Absent, Bool(FALSE), Absent, Iso(0))}

\* what callers pass to updateTodo: the above, and a payload with an id and a
\* createdAt of its own
UpdateInputs == CompletionInputs \cup {Updates(Str(<<"z">>), Absent, Absent, Iso(0), Absent)}

\* an id no todo has
MissingId == Str(<<"m">>)

\* the ids of a list
IdsOf(todos) == {todos[i].id : i \in 1..Len(todos)}

\* a todo of another installation, completed at instant 0
ForeignTodo ==
    Entry("object", Str(<<"f">>), TitleA, Bool(TRUE), Null, Iso(0), Iso(0), NormalPriority,
          Arr(<<>>), Str(<<>>), Undef)

\* the members of an imported file: todos exported before, a foreign todo, null
ImportMembers(todos) == {todos[i] : i \in 1..Len(todos)} \cup {ForeignTodo, NullEntry}

ImportFiles(todos) ==
    {NonList, BadItem}
        \cup {ListOf(<<a>>) : a \in ImportMembers(todos)}
        \cup {ListOf(<<a, b>>) : a \in ImportMembers(todos), b \in ImportMembers(todos)}

\* what localStorage may hold when the page is opened
LegacyTodo ==
    Entry("object", Undef, TitleA, Undef, Undef, Undef, Undef, Undef, Undef, Undef, Undef)

OldVersion == Str(<<"0", ".", "9", ".", "0">>)

InitialTodos ==
    {NoItem, BadItem, NonList, ListOf(<<>>), ListOf(<<LegacyTodo>>),
     ListOf(<<ForeignTodo, LegacyTodo>>)}

Dark == Str(<<"d", "a", "r", "k">>)

InitialSettings ==
    {NoSettingsItem, BadSettingsItem,
     SettingsItem([NoSettings EXCEPT !.version = OldVersion]),
     SettingsItem([NoSettings EXCEPT !.version = OldVersion, !.theme = Dark]),
     SettingsItem([NoSettings EXCEPT !.version = version, !.theme = Dark])}

(***************************************************************************)
(* Actions                                                                 *)
(***************************************************************************)
NoStore == [set |-> FALSE, todos |-> <<>>, settings |-> getDefaultSettings]

Idle ==
    [op |-> "none", id |-> Undef, data |-> NoData, upd |-> NoUpdates, ret |-> "none",
     todo |-> NoTodo, old |-> NoTodo, ev |-> <<>>, wr |-> <<>>, sw |-> <<>>, list |-> <<>>,
     settings |-> NoSettings, probe |-> "none", file |-> NoItem]

\* the second tab before its page is opened
NoPeer == [tab |-> 2, phase |-> "boot", mem |-> NoStore, fb |-> FALSE]

\* the page is opened on what a set of localStorage contents holds
InitOn(stores) ==
    /\ phase = "boot"
    /\ now = 0
    /\ ls \in stores
    /\ mem = NoStore
    /\ fb = FALSE
    /\ idCount = 0
    /\ last = Idle
    /\ raw = NonList
    /\ checked = <<>>
    /\ peer = NoPeer

\* new TodoStorage(): the constructor runs initializeStorage
Construct ==
    /\ phase = "boot"
    /\ \E available \in BOOLEAN, env \in AllEnvs(Current) :
          \E S \in {initializeStorage(Store(env), available, idCount)} :
             /\ Commit(S)
             /\ last' = [Last("construct", Undef, NoData, NoUpdates, "none", NoTodo, NoTodo, S)
                            EXCEPT !.probe = IF available THEN "ok" ELSE "failed"]
    /\ phase' = "ready"
    /\ UNCHANGED <<now, idCount, raw, checked, peer>>

\* the wall clock moves on between two handlers
Tick ==
    /\ phase = "ready"
    /\ now < MaxTime
    /\ last = Idle
    /\ now' = now + 1
    /\ UNCHANGED <<phase, ls, mem, fb, idCount, last, raw, checked, peer>>

\* the caller has taken the result of the handler: the event loop is idle
Return ==
    /\ last # Idle
    /\ last' = Idle
    /\ UNCHANGED <<phase, now, ls, mem, fb, idCount, raw, checked, peer>>

\* addTodo(todoData) for one of inputs
Add(inputs) ==
    /\ phase = "ready"
    /\ last = Idle
    /\ idCount < MaxIds
    /\ Len(getTodos(Current)) < MaxTodos
    /\ \E todoData \in inputs, env \in TodoEnvs(Current) :
          \E r \in {addTodo(Store(env), todoData, idCount + 1)} :
             /\ Commit(r.s)
             /\ last' = Last("add", Undef, todoData, NoUpdates, r.ret, r.todo, NoTodo, r.s)
    /\ idCount' = idCount + 1
    /\ UNCHANGED <<phase, now, raw, checked, peer>>

\* updateTodo(id, updates) for one of inputs, on a stored id or a missing one
Update(inputs) ==
    /\ phase = "ready"
    /\ last = Idle
    /\ \E id \in IdsOf(getTodos(Current)) \cup {MissingId}, updates \in inputs,
          env \in TodoEnvs(Current) :
          \E r \in {updateTodo(Store(env), id, updates)} :
             /\ Commit(r.s)
             /\ last' = Last("update", id, NoData, updates, r.ret, r.todo, r.old, r.s)
    /\ UNCHANGED <<phase, now, idCount, raw, checked, peer>>

\* deleteTodo(id) on a stored id or a missing one
Delete ==
    /\ phase = "ready"
    /\ last = Idle
    /\ \E id \in IdsOf(getTodos(Current)) \cup {MissingId}, env \in TodoEnvs(Current) :
          \E r \in {deleteTodo(Store(env), id)} :
             /\ Commit(r.s)
             /\ last' = Last("delete", id, NoData, NoUpdates, r.ret, r.todo, NoTodo, r.s)
    /\ UNCHANGED <<phase, now, idCount, raw, checked, peer>>

\* importTodos(file): the onload handler of the file reader
Import ==
    /\ phase = "ready"
    /\ last = Idle
    /\ \E imported \in ImportFiles(getTodos(Current)), env \in TodoEnvs(Current) :
          /\ Len(imported.v) + Len(getTodos(Current)) <= MaxTodos
          /\ \E r \in {importTodos(Store(env), imported)} :
                /\ Commit(r.s)
                /\ last' = [Last("import", Undef, NoData, NoUpdates, r.ret, NoTodo, NoTodo, r.s)
                               EXCEPT !.file = imported]
    /\ UNCHANGED <<phase, now, idCount, raw, checked, peer>>

\* the arguments of saveSettings: one key only, and a full object
SettingsInputs ==
    {[NoSettings EXCEPT !.theme = Dark],
     [getDefaultSettings EXCEPT !.notifications = Bool(TRUE)]}

\* saveSettings(settings)
SaveSettings ==
    /\ phase = "ready"
    /\ last = Idle
    /\ \E settings \in SettingsInputs, env \in SettingsEnvs(Current) :
          \E r \in {saveSettings(Store(env), settings)} :
             /\ Commit(r.s)
             /\ last' = [Last("saveSettings", Undef, NoData, NoUpdates,
                               IF r.ret THEN "true" ELSE "false", NoTodo, NoTodo, r.s)
                            EXCEPT !.settings = settings]
    /\ UNCHANGED <<phase, now, idCount, raw, checked, peer>>

\* clearAll()
ClearAll ==
    /\ phase = "ready"
    /\ last = Idle
    /\ \E available \in BOOLEAN, env \in AllEnvs(Current) :
          \E r \in {clearAll(Store(env), available, idCount)} :
             /\ Commit(r.s)
             /\ last' = [Last("clearAll", Undef, NoData, NoUpdates, r.ret, NoTodo, NoTodo, r.s)
                            EXCEPT !.list = getTodos(Current),
                                   !.settings = getSettings(Current),
                                   !.probe = IF fb THEN "none"
                                             ELSE IF available THEN "ok" ELSE "failed"]
    /\ UNCHANGED <<phase, now, idCount, raw, checked, peer>>

\* getTodos()
GetAll ==
    /\ phase = "ready"
    /\ last = Idle
    /\ \E r \in {getAll(Current)} :
          last' = [Last("getAll", Undef, NoData, NoUpdates, r.ret, NoTodo, NoTodo, Current)
                     EXCEPT !.list = r.list]
    /\ UNCHANGED <<phase, now, ls, mem, fb, idCount, raw, checked, peer>>

\* getSettings()
GetSettings ==
    /\ phase = "ready"
    /\ last = Idle
    /\ last' = [Last("getSettings", Undef, NoData, NoUpdates, "settings", NoTodo, NoTodo, Current)
                  EXCEPT !.settings = getSettings(Current)]
    /\ UNCHANGED <<phase, now, ls, mem, fb, idCount, raw, checked, peer>>

\* the queries of searchTodos: the search box, and a caller without a string
Queries == {Str(<<"A">>), Str(<<"x">>), Str(<<" ">>), Undef}

\* searchTodos(query); data.title holds the query
Search ==
    /\ phase = "ready"
    /\ last = Idle
    /\ \E query \in Queries :
          \E r \in {searchTodos(Current, query)} :
             last' = [Last("search", Undef, [NoData EXCEPT !.title = query], NoUpdates, r.ret,
                           NoTodo, NoTodo, Current)
                        EXCEPT !.list = r.list]
    /\ UNCHANGED <<phase, now, ls, mem, fb, idCount, raw, checked, peer>>

(***************************************************************************)
(* validateTodos on its own: the argument is any raw value, the call       *)
(* happens at any instant.                                                 *)
(***************************************************************************)
\* the longest raw list handed to validateTodos
MaxRaw == 2

\* a todo as validateTodos leaves it, with a title that has blanks around it
PaddedTodo ==
    Entry("object", Str(<<"p">>), TitleB, Bool(FALSE), Null, Iso(0), Null, NormalPriority,
          Arr(<<"t">>), Str(<<"d">>), Undef)

\* a record with the required fields only, its title all blanks
BlankTodo ==
    Entry("object", Str(<<"w">>), Blank, Bool(TRUE), Undef, Undef, Undef, Undef, Undef, Undef, Undef)

\* a record with the required fields only, its tags not a list
BareTodo ==
    Entry("object", Str(<<"q">>), TitleA, Bool(TRUE), Undef, Undef, Undef, Undef, Str(<<"t">>),
          Undef, Undef)

\* a record whose id is a number
NumberedTodo ==
    Entry("object", Num(1), TitleA, Bool(FALSE), Null, Iso(0), Null, NormalPriority, Arr(<<>>),
          Str(<<>>), Undef)

RawMembers ==
    {NullEntry, PrimEntry, LegacyTodo, ForeignTodo, PaddedTodo, BlankTodo, BareTodo, NumberedTodo}

RECURSIVE ListsUpTo(_, _)
ListsUpTo(members, n) ==
    IF n = 0 THEN {<<>>}
    ELSE LET shorter == ListsUpTo(members, n - 1)
         IN shorter \cup {Append(l, m) : l \in {s \in shorter : Len(s) = n - 1}, m \in members}

RawInputs == {NonList} \cup {ListOf(l) : l \in ListsUpTo(RawMembers, MaxRaw)}

InitValidate ==
    /\ phase = "call"
    /\ now \in 0..MaxTime
    /\ ls = [todos |-> NoItem, settings |-> NoSettingsItem]
    /\ mem = NoStore
    /\ fb = FALSE
    /\ idCount = 0
    /\ last = Idle
    /\ raw \in RawInputs
    /\ checked = <<>>
    /\ peer = NoPeer

\* validateTodos(raw)
Validate ==
    /\ phase = "call"
    /\ checked' = validateTodos(raw, now)
    /\ phase' = "returned"
    /\ UNCHANGED <<now, ls, mem, fb, idCount, last, raw, peer>>

NextValidate == Validate

SpecValidate == InitValidate /\ [][NextValidate]_vars

(***************************************************************************)
(* Specifications                                                          *)
(***************************************************************************)
\* a first visit: localStorage holds neither item
FreshProfile == {[todos |-> NoItem, settings |-> NoSettingsItem]}

\* the traffic of the form: well-formed adds, completion updates, deletes
Init == InitOn(FreshProfile)

Next == Construct \/ Return \/ Tick \/ Add({PlainData}) \/ Update(CompletionInputs) \/ Delete

Spec == Init /\ [][Next]_vars

\* every caller: adds with any title, updates with any payload
InitCallers == InitOn(FreshProfile)

NextCallers == Construct \/ Return \/ Tick \/ Add(AddInputs) \/ Update(UpdateInputs) \/ Delete

SpecCallers == InitCallers /\ [][NextCallers]_vars

\* the form's traffic and imports
InitImport == InitOn(FreshProfile)

NextImport == Construct \/ Return \/ Tick \/ Add({PlainData}) \/ Update(ToggleInputs) \/ Delete \/ Import

SpecImport == InitImport /\ [][NextImport]_vars

\* the page opened on what an earlier version left in localStorage
InitBoot == InitOn([todos : InitialTodos, settings : InitialSettings])

NextBoot == Construct \/ Return \/ Add({PlainData}) \/ Delete

SpecBoot == InitBoot /\ [][NextBoot]_vars

\* the form's traffic, settings saved and the store reset
InitReset == InitOn(FreshProfile)

NextReset ==
    Construct \/ Return \/ Tick \/ Add({PlainData}) \/ Update(ToggleInputs) \/ Delete
        \/ SaveSettings \/ ClearAll

SpecReset == InitReset /\ [][NextReset]_vars

\* the page opened on any content of localStorage, and read
TaggedTodo ==
    Entry("object", Str(<<"t">>), Str(<<"B">>), Bool(FALSE), Null, Iso(0), Null,
          NormalPriority, Arr(<<"x">>), Str(<<>>), Undef)

\* a todo whose description is a number
NumberDescribed ==
    Entry("object", Str(<<"n">>), TitleA, Bool(FALSE), Null, Iso(0), Null, NormalPriority,
          Arr(<<>>), Num(5), Undef)

ReadTodos ==
    {NoItem, BadItem, NonList, ListOf(<<>>), ListOf(<<ForeignTodo, TaggedTodo>>),
     ListOf(<<NumberDescribed, ForeignTodo>>)}

ReadSettings ==
    {NoSettingsItem, BadSettingsItem, SettingsItem(NoSettings),
     SettingsItem([NoSettings EXCEPT !.theme = Dark]),
     SettingsItem([getDefaultSettings EXCEPT !.sortBy = Str(<<"t", "i", "t", "l", "e">>)])}

InitReads == InitOn([todos : ReadTodos, settings : ReadSettings])

NextReads == Construct \/ Return \/ GetAll \/ GetSettings \/ Search

SpecReads == InitReads /\ [][NextReads]_vars

(***************************************************************************)
(* A store that has been in use for a long time: the clock stands at Late  *)
(* and the stored list holds todos completed before, at and after the      *)
(* instant ThirtyDays earlier.                                             *)
(***************************************************************************)
\* the most todos the stored list holds when the page is opened
MaxStored == 3

Late == MaxTime + ThirtyDays

\* a stored todo: its id, whether it is completed, createdAt and completedAt
StoredTodo(id, completed, createdAt, completedAt) ==
    Entry("object", Str(<<id>>), TitleA, Bool(completed), Null, createdAt, completedAt,
          NormalPriority, Arr(<<>>), Str(<<>>), Undef)

OldDone == StoredTodo("o", TRUE, Iso(0), Iso(0))
UnstampedDone == StoredTodo("u", TRUE, Iso(0), Null)
CutoffDone == StoredTodo("c", TRUE, Iso(0), Iso(Late - ThirtyDays))
RecentDone == StoredTodo("r", TRUE, Iso(0), Iso(Late))
OldOpen == StoredTodo("p", FALSE, Iso(0), Null)

StoredMembers == {OldDone, UnstampedDone, CutoffDone, RecentDone, OldOpen}

\* the lists of distinct stored todos
StoredLists ==
    {l \in ListsUpTo(StoredMembers, MaxStored) :
        \A i \in 1..Len(l) : \A j \in 1..Len(l) : l[i] = l[j] => i = j}

InitQuota ==
    /\ phase = "boot"
    /\ now = Late
    /\ ls \in [todos : {ListOf(l) : l \in StoredLists},
               settings : {SettingsItem(getDefaultSettings)}]
    /\ mem = NoStore
    /\ fb = FALSE
    /\ idCount = 0
    /\ last = Idle
    /\ raw = NonList
    /\ checked = <<>>
    /\ peer = NoPeer

NextQuota == Construct \/ Return \/ Add({PlainData}) \/ Update(ToggleInputs) \/ Delete

SpecQuota == InitQuota /\ [][NextQuota]_vars

\* partial updates: payloads with one field, among them an empty title, a
\* title of blanks, a completed that is null and a completedAt alone
PartialInputs ==
    {Updates(Absent, Empty, Absent, Absent, Absent),
     Updates(Absent, Blank, Absent, Absent, Absent),
     Updates(Absent, TitleB, Absent, Absent, Absent),
     Updates(Absent, Absent, Null, Absent, Absent),
     Updates(Absent, Absent, Absent, Absent, Iso(0))}

InitPartials == InitOn(FreshProfile)

NextPartials == Construct \/ Return \/ Tick \/ Add({PlainData}) \/ Update(PartialInputs) \/ Delete

SpecPartials == InitPartials /\ [][NextPartials]_vars

\* two tabs of the same origin, each with a TodoStorage of its own on the one
\* localStorage; a handler runs to its end before the next one starts
ActiveTab == 3 - peer.tab

\* the user turns from the first tab to the second: the handlers that run
\* next are those of its instance
Switch ==
    /\ phase = "ready"
    /\ last = Idle
    /\ peer.tab = 2
    /\ peer' = [tab |-> ActiveTab, phase |-> phase, mem |-> mem, fb |-> fb]
    /\ phase' = peer.phase
    /\ mem' = peer.mem
    /\ fb' = peer.fb
    /\ UNCHANGED <<now, ls, idCount, last, raw, checked>>

\* what the form of a tab passes to addTodo: the first tab's todos are
\* titled "a", the second tab's "b"
TabData(tab) == IF tab = 1 THEN PlainData ELSE TodoData(TitleB, Null, Absent, Absent, Absent)

\* both pages are open: each constructor has run initializeStorage, the first
\* on a fresh profile, with localStorage available and every write accepted
Opened ==
    initializeStorage([ls |-> CHOOSE f \in FreshProfile : TRUE, mem |-> NoStore, fb |-> FALSE,
                       ev |-> <<>>, wr |-> <<>>, sw |-> <<>>, now |-> 0,
                       tq |-> OkEnv.tq, sq |-> OkEnv.sq, ovf |-> OkEnv.ovf], TRUE, 0)

InitTabs ==
    /\ phase = "ready"
    /\ now = 0
    /\ ls = Opened.ls
    /\ mem = Opened.mem
    /\ fb = Opened.fb
    /\ idCount = 0
    /\ last = Idle
    /\ raw = NonList
    /\ checked = <<>>
    /\ peer = [tab |-> 2, phase |-> "ready", mem |-> Opened.mem, fb |-> Opened.fb]

NextTabs ==
    \/ Return \/ Tick \/ Switch
    \/ Add({TabData(ActiveTab)}) \/ Update(ToggleInputs) \/ Delete

SpecTabs == InitTabs /\ [][NextTabs]_vars

(***************************************************************************)
(* Properties                                                              *)
(***************************************************************************)
\* whether a handler dispatched an event of a type
Dispatched(ev, type) == \E i \in 1..Len(ev) : ev[i].type = type

\* C1: for every todoData that addTodo accepts (it returns a todo t), a
\* getTodo(t.id) right after it returns a record equal to t field by field,
\* on localStorage and on the in-memory fallback alike.
C1_AddThenGet ==
    (last.op = "add" /\ last.ret = "todo") => getTodo(Current, last.todo.id) = last.todo

\* a title that is empty once trimmed
BlankTitle(title) == title.k = "string" /\ Trim(title.s) = <<>>

\* C2: addTodo with a title that is empty after trimming is rejected: it
\* returns null, dispatches no todo_added event and leaves the stored list
\* as it was.
C2_BlankTitleRejected ==
    [][(last'.op = "add" /\ BlankTitle(last'.data.title))
          => /\ last'.ret = "null"
             /\ ~Dispatched(last'.ev, "todo_added")
             /\ getTodos(Current)' = getTodos(Current)]_vars

\* the Todo invariant of the data model: a non-empty string id, a non-empty
\* trimmed title, a boolean completed, every other field present, tags a list
TodoInvariant(todo) ==
    /\ todo.o = "object"
    /\ TypeOf(todo.id) = "string" /\ Truthy(todo.id)
    /\ TypeOf(todo.title) = "string" /\ Truthy(todo.title) /\ TrimVal(todo.title) = todo.title
    /\ TypeOf(todo.completed) = "boolean"
    /\ todo.dueDate # Undef
    /\ todo.createdAt # Undef
    /\ todo.completedAt # Undef
    /\ todo.priority # Undef
    /\ todo.tags.k = "array"
    /\ todo.description # Undef

\* C3: for every raw input, every member of the list validateTodos returns
\* satisfies the Todo invariant.
C3_ValidatedSatisfyInvariant ==
    phase = "returned" => \A i \in 1..Len(checked) : TodoInvariant(checked[i])

\* a payload of update that sets completed to b and may carry a completedAt
SetsCompleted(updates, b) == updates.completed = Bool(b)

C5_UpdatedAtStored ==
    (last.op = "update" /\ last.ret = "todo" /\ getTodo(Current, last.id) # NoTodo)
        => getTodo(Current, last.id).updatedAt = Iso(now)

\* C6: updateTodo never changes the id or the createdAt of a todo: for every
\* stored id and every payload, one with an id or a createdAt of its own
\* included, the stored record afterwards has the id and the createdAt it
\* had before.
C6_IdAndCreatedAtImmutable ==
    (last.op = "update" /\ last.old # NoTodo /\ getTodo(Current, last.id) # NoTodo)
        => /\ getTodo(Current, last.id).id = last.old.id
           /\ getTodo(Current, last.id).createdAt = last.old.createdAt

\* C7: after deleteTodo(id) has returned true, getTodo(id) returns null, for
\* every stored list that adds, updates, deletes and imports lead to.
C7_DeleteThenGet ==
    (last.op = "delete" /\ last.ret = "true") => getTodo(Current, last.id) = NoTodo

\* C8: updateTodo and deleteTodo on an id that is not in the stored list
\* return null and false, write nothing to localStorage and dispatch no
\* event, and the stored list is unchanged.
C8_NotFoundByValue ==
    [][(last'.op \in {"update", "delete"} /\ last'.id \notin IdsOf(getTodos(Current)))
          => /\ last'.op = "update" => last'.ret = "null"
             /\ last'.op = "delete" => last'.ret = "false"
             /\ last'.wr = <<>>
             /\ last'.ev = <<>>
             /\ ls' = ls /\ mem' = mem /\ fb' = fb]_vars

\* deleteTodo on a missing id while the stored list is not empty
C8_Witness ==
    /\ last.op = "delete"
    /\ last.id = MissingId
    /\ last.ret = "false"
    /\ Len(getTodos(Current)) > 0

\* the todos item holds a legacy record and the settings item a version
\* below 1.0.0
LegacyProfile ==
    /\ ls.todos.k = "list"
    /\ \E i \in 1..Len(ls.todos.v) : ls.todos.v[i] = LegacyTodo
    /\ ls.settings.k = "object"
    /\ ls.settings.v.version = OldVersion

\* a legacy record after the backfill: an id, the current time, not completed
Backfilled(todo, t) ==
    /\ todo.title = LegacyTodo.title
    /\ TypeOf(todo.id) = "string" /\ Truthy(todo.id)
    /\ todo.createdAt = Iso(t)
    /\ todo.completed = Bool(FALSE)

\* C9: when the constructor migrates from a version below 1.0.0 over a stored
\* list with a legacy record that has no id, no createdAt and no boolean
\* completed, and localStorage takes every write, the record is kept with
\* the three backfilled and the migrated list is written exactly once.
C9_MigrationBackfills ==
    [][(/\ phase = "boot" /\ phase' = "ready"
        /\ LegacyProfile
        /\ ~fb'
        /\ \A i \in 1..Len(last'.wr) : last'.wr[i] = "ok"
        /\ \A i \in 1..Len(last'.sw) : last'.sw[i] = "ok")
          => /\ \E i \in 1..Len(getTodos(Current)') : Backfilled(getTodos(Current)'[i], now)
             /\ Len(last'.wr) = 1]_vars

\* C10: when a write of the todo list fails with quota-exceeded and the
\* recovery write of the reduced list fails too, the store is on the
\* in-memory fallback afterwards.
C10_FallbackAfterFailedRecovery ==
    (/\ last.op \in {"add", "update", "delete"}
     /\ Len(last.wr) >= 2
     /\ last.wr[1] = "quota"
     /\ last.wr[2] # "ok")
        => fb

\* a todo completed before an instant: by completedAt, or createdAt without it
CompletedBefore(todo, cutoff) ==
    /\ Truthy(todo.completed)
    /\ TimeOf(Or(todo.completedAt, todo.createdAt)).t < cutoff

\* C11: when the localStorage write of addTodo fails with quota-exceeded,
\* handleQuotaExceeded has run by the time addTodo returns: the stored list
\* holds no todo completed more than thirty days ago.
C11_RecoveryBeforeAddReturns ==
    (last.op = "add" /\ Len(last.wr) >= 1 /\ last.wr[1] = "quota")
        => \A i \in 1..Len(getTodos(Current)) :
               ~CompletedBefore(getTodos(Current)[i], now - ThirtyDays)

\* C12: a quota recovery that writes the reduced list removes exactly the
\* completed todos whose completedAt (createdAt without it) is older than
\* now minus thirty days: the todos not completed and the ones completed at
\* the cutoff or later stay, in their order.
C12_RecoveryRemovesExactlyOlder ==
    [][(/\ last'.op \in {"add", "update", "delete"}
        /\ ~fb /\ ~fb'
        /\ Len(last'.wr) >= 2
        /\ last'.wr[1] = "quota"
        /\ last'.wr[Len(last'.wr)] = "ok")
          => getTodos(Current)' =
                 SelectSeq(getTodos(Current),
                           LAMBDA todo : ~CompletedBefore(todo, now - ThirtyDays))]_vars

\* C13: when the probe of localStorage fails the store is on the in-memory
\* fallback, and a store on the fallback stays on it through every addTodo,
\* updateTodo, deleteTodo, saveSettings, clearAll and quota recovery.
C13_FallbackIsPermanent ==
    [][/\ last'.probe = "failed" => fb'
       /\ fb => fb']_vars

\* clearAll has run on the fallback after a todo was added
C13_Witness ==
    /\ fb
    /\ last.op = "clearAll"
    /\ last.probe = "none"
    /\ Len(last.list) > 0

\* C20: after clearAll has returned true, on localStorage and on the
\* fallback alike, getTodos returns the empty list and getSettings the
\* default settings, whatever was stored before.
C20_ClearAllResets ==
    (last.op = "clearAll" /\ last.ret = "true")
        => /\ getTodos(Current) = <<>>
           /\ getSettings(Current) = getDefaultSettings

\* clearAll has run on localStorage over a list with a todo and settings
\* that were not the default ones
C20_Witness ==
    /\ last.op = "clearAll"
    /\ last.ret = "true"
    /\ ~fb
    /\ Len(last.list) > 0
    /\ last.settings # getDefaultSettings

\* the keys of the settings other than version
OtherKeys == DOMAIN getDefaultSettings \ {"version"}

\* the settings item records a version that is not the one of the code
OtherVersionStored ==
    /\ ls.settings.k = "object"
    /\ ls.settings.v.version \notin {Absent, version}

\* the settings item holds the version of the code, every other key that was
\* stored keeps its value and every other key holds the default
VersionBrought ==
    /\ ls'.settings.k = "object"
    /\ ls'.settings.v.version = version
    /\ \A key \in OtherKeys :
          ls'.settings.v[key] = IF ls.settings.v[key] # Absent
                                THEN ls.settings.v[key]
                                ELSE getDefaultSettings[key]

C15_SettingsHaveEveryKey ==
    last.op = "getSettings"
        => /\ \A key \in DOMAIN getDefaultSettings : last.settings[key] # Absent
           /\ fb => last.settings = mem.settings
           /\ ~fb => \A key \in DOMAIN getDefaultSettings :
                        last.settings[key] =
                            IF ls.settings.k = "object" /\ ls.settings.v[key] # Absent
                            THEN ls.settings.v[key]
                            ELSE getDefaultSettings[key]

\* getSettings has run on a settings item that holds the theme only
C15_Witness ==
    /\ last.op = "getSettings"
    /\ ~fb
    /\ ls.settings = SettingsItem([NoSettings EXCEPT !.theme = Dark])
    /\ last.settings.theme = Dark
    /\ last.settings.sortBy = getDefaultSettings.sortBy

\* C17: no operation lets an exception out to its caller: for every content
\* of localStorage and every argument, a query that is not a string
\* included, each returns a value.
C17_NothingThrows == last.ret # "threw"

\* the todos item is absent, does not parse, or parses to something that is
\* not a list
NoStoredList == ~fb /\ ls.todos.k \in {"absent", "unparsable", "nonlist"}

\* C18: getTodos never throws: when the todos item is absent, does not
\* parse or parses to a value that is not a list, it returns the empty
\* list, and it leaves localStorage as it is.
C18_GetAllOfNoList ==
    [][last'.op = "getAll"
          => /\ last'.ret = "list"
             /\ NoStoredList => last'.list = <<>>
             /\ last'.wr = <<>> /\ last'.sw = <<>>
             /\ ls' = ls /\ mem' = mem /\ fb' = fb]_vars

\* getTodos has run on a todos item that is not a list
C18_Witness ==
    /\ last.op = "getAll"
    /\ ~fb
    /\ ls.todos = NonList
    /\ last.list = <<>>

\* whether a handler dispatched an event of a type with a payload
DispatchedWith(ev, type, data) == \E i \in 1..Len(ev) : ev[i] = Event(type, data)

\* the event type of an operation on todos
EventOf(op) ==
    CASE op = "add" -> "todo_added"
      [] op = "update" -> "todo_updated"
      [] OTHER -> "todo_deleted"

\* C16: an event is dispatched after every mutation that succeeds and only
\* then: todo_added with the new todo, todo_updated with the record before
\* and the new one, todo_deleted with the record removed, settings_updated
\* after saveSettings and storage_cleared after clearAll; an addTodo,
\* updateTodo or deleteTodo that leaves the stored list as it was
\* dispatches no event of its type.
C16_EventsFollowMutations ==
    [][/\ (last'.op = "add" /\ last'.ret = "todo")
             => DispatchedWith(last'.ev, "todo_added", <<last'.todo>>)
       /\ (last'.op = "update" /\ last'.ret = "todo")
             => DispatchedWith(last'.ev, "todo_updated", <<last'.old, last'.todo>>)
       /\ (last'.op = "delete" /\ last'.ret = "true")
             => DispatchedWith(last'.ev, "todo_deleted", <<last'.todo>>)
       /\ (last'.op = "saveSettings" /\ last'.ret = "true")
             => Dispatched(last'.ev, "settings_updated")
       /\ (last'.op = "clearAll" /\ last'.ret = "true")
             => Dispatched(last'.ev, "storage_cleared")
       /\ (last'.op \in {"add", "update", "delete"} /\ getTodos(Current)' = getTodos(Current))
             => ~Dispatched(last'.ev, EventOf(last'.op))]_vars

\* the ids of a list, in its order
IdSeq(todos) == [i \in 1..Len(todos) |-> todos[i].id]

\* C19: new todos are prepended and the order is kept: when addTodo returns
\* a todo t on a store whose getTodos() was L, the next getTodos() is t
\* followed by L; updateTodo and deleteTodo keep the order of the todos that
\* remain.
C19_PrependedInOrder ==
    [][/\ (last'.op = "add" /\ last'.ret = "todo")
             => /\ Len(getTodos(Current)') = Len(getTodos(Current)) + 1
                /\ Head(getTodos(Current)').id = last'.todo.id
                /\ Tail(getTodos(Current)') = getTodos(Current)
       /\ (last'.op \in {"update", "delete"} /\ last'.ret \in {"todo", "true"})
             => IdSeq(getTodos(Current)') =
                    IdSeq(SelectSeq(getTodos(Current),
                                    LAMBDA todo : todo.id \in IdsOf(getTodos(Current)')))]_vars

\* an entry of an imported file that is a todo: a string title, a boolean
\* completed and a string id
WellFormedEntry(todo) ==
    /\ todo.o = "object"
    /\ TypeOf(todo.title) = "string"
    /\ TypeOf(todo.completed) = "boolean"
    /\ TypeOf(todo.id) = "string"

\* a file that is not a list, or holds an entry that is not a todo
Malformed(file) ==
    \/ file.k # "list"
    \/ \E i \in 1..Len(file.v) : ~WellFormedEntry(file.v[i])

\* C21: a malformed file is rejected and never merged in part: when the
\* file is not a list or holds an entry that is not a todo, importTodos
\* rejects and the stored list is unchanged.
C21_MalformedImportRejected ==
    [][(last'.op = "import" /\ Malformed(last'.file))
          => /\ last'.ret = "rejected"
             /\ getTodos(Current)' = getTodos(Current)]_vars

\* C22: quota recovery terminates: when every write of the todo list fails
\* with quota-exceeded, the write of the reduced list included, the calls
\* between saveTodos and handleQuotaExceeded stop by themselves after a
\* bounded number of steps; they do not go on until the call stack runs out.
C22_RecoveryTerminates ==
    \A i \in 1..Len(last.wr) : last.wr[i] # "overflow"

\* C26: validateTodos is idempotent: for every raw input, validating the list
\* it returned gives that list again.
C26_ValidateIdempotent ==
    phase = "returned" => validateTodos(ListOf(checked), now) = checked

\* C25: ids are unique: after any sequence of adds, updates, deletes and
\* imports (the import of a file exported from this store included), no two
\* todos of the stored list have the same id.
C25_IdsUnique ==
    LET todos == getTodos(Current)
    IN \A i \in 1..Len(todos) : \A j \in 1..Len(todos) :
          todos[i].id = todos[j].id => i = j

\* C23: updateTodo never removes a todo: for every stored id and every
\* partial payload (an empty or blank title, a completed that is not a
\* boolean), the stored list has the same length and the same ids after the
\* update as before.
C23_UpdateKeepsEveryTodo ==
    [][(last'.op = "update" /\ last'.id \in IdsOf(getTodos(Current)))
          => /\ Len(getTodos(Current)') = Len(getTodos(Current))
             /\ IdsOf(getTodos(Current)') = IdsOf(getTodos(Current))]_vars

\* C24: starting from the empty store, after any sequence of adds, updates
\* and deletes, every stored todo has completedAt null exactly when its
\* completed is false.
C24_CompletedAtIffCompleted ==
    LET todos == getTodos(Current)
    IN \A i \in 1..Len(todos) :
          (todos[i].completedAt = Null) <=> (todos[i].completed = Bool(FALSE))

\* C27: when the localStorage write of addTodo fails with quota-exceeded,
\* addTodo returns null, dispatches no todo_added event, and the todo it built
\* is not in the stored list, also when the recovery wrote a reduced list.
C27_FailedAddStoresNothing ==
    (last.op = "add" /\ Len(last.wr) >= 1 /\ last.wr[1] = "quota")
        => /\ last.ret = "null"
           /\ ~Dispatched(last.ev, "todo_added")
           /\ generateId(now, idCount) \notin IdsOf(getTodos(Current))

\* an add whose write failed and whose recovery wrote a reduced list
C27_Witness ==
    /\ last.op = "add"
    /\ last.wr = <<"quota", "ok">>
    /\ last.ret = "null"
    /\ Dispatched(last.ev, "todos_updated")

\* the list the todos item of localStorage holds
Durable == IF ls.todos.k = "list" THEN ls.todos.v ELSE <<>>

\* whether a stored todo was added by a tab
AddedBy(todo, tab) == todo.title = (IF tab = 1 THEN TitleA ELSE Str(<<"b">>))

\* whether the handler's write failed with quota-exceeded and its recovery
\* wrote the list without a todo
RecoveryRemoved(h, todo, t) ==
    /\ Len(h.wr) >= 2
    /\ h.wr[1] = "quota"
    /\ h.wr[Len(h.wr)] = "ok"
    /\ ~KeepOnCleanup(todo, t)

====
